---- MODULE Spec2Model ----
(***************************************************************************)
(* Model of pomodoro-shell-cli, a command-line client of the GNOME         *)
(* Pomodoro D-Bus service.  The repository holds two implementations of    *)
(* the same command line:                                                  *)
(*   "async": src/build/lib/pomodoro_shell_cli/cli.py (dbus_fast, asyncio) *)
(*   "sync" : src/pomodoro_shell_cli/cli.py (dbus-python, GLib main loop)  *)
(* Both are modelled; the variable impl says which one a run executes.     *)
(*                                                                         *)
(* Durations are floating-point seconds in the program.  They are held     *)
(* here in units of 1/Unit second, so that floor and ceil are not the      *)
(* identity.                                                               *)
(***************************************************************************)
EXTENDS Integers, Sequences, FiniteSets, TLC

VARIABLES
    \* ---- pure-function harness (SpecFormat) ----
    fpc,          \* "input" | "format_time" | "print_state_from_data" | "print_timer_state"
    seconds,      \* argument of format_time
    text,         \* value returned by format_time
    data,         \* timer snapshot handed to the formatter
    result,       \* what the formatter did: [out |-> lines printed, raised |-> exception?]
    \* ---- the running program (Spec) ----
    impl,         \* "async" | "sync"
    cmd,          \* args.command; "watch" stands for no argument
    pc,           \* position of main / the main coroutine
    conn,         \* bus connection: "none" | "open" | "closed"
    stdout,       \* lines written to standard output
    stderr,       \* lines written to the error stream
    exitCode,     \* <<>> while the process lives, then <<its exit status>>
    matchAdded,   \* the PropertiesChanged match rule is registered on the bus
    handler,      \* the client dispatches PropertiesChanged to the program
    update_event, \* async: asyncio.Event of watch_async
    ready,        \* async: the event loop's FIFO of scheduled callbacks
    wpc,          \* async: position of the watch_loop task
    mustCancel,   \* async: cancellation requested of the watch_loop task
    queue,        \* sync: signals received by libdbus and not yet dispatched
    \* ---- the environment and bookkeeping of what happened ----
    replies,      \* async: GetAll replies received and not yet consumed by their task
    fault,        \* one-shot modes: the failure the run met ("none" if none)
    notifs,       \* PropertiesChanged signals delivered so far
    reads,        \* GetAll requests issued so far (read ids are 1..reads)
    inflight,     \* ids of the GetAll requests sent whose reply has not arrived
    printed,      \* ids of the reads whose line was printed, in print order
    failures,     \* ids of the notification-triggered reads that failed
    dirty,        \* a notification was delivered and no read was issued since
    burst,        \* notifications delivered while the latest read was in flight
    afterBurst,   \* reads issued since, with no further notification
    interrupt     \* "none", or what the program was doing when SIGINT was delivered

fvars == <<fpc, seconds, text, data, result>>
pvars == <<impl, cmd, pc, conn, stdout, stderr, exitCode, matchAdded, handler,
           update_event, ready, wpc, mustCancel, queue>>
evars == <<replies, fault, notifs, reads, inflight, printed, failures, dirty, burst,
           afterBurst, interrupt>>
vars == <<fvars, pvars, evars>>

(***************************************************************************)
(* Bounds.                                                                 *)
(***************************************************************************)
MaxSeconds == 7322        \* format_time is applied to 0..MaxSeconds
MaxElapsed == 5           \* Elapsed ranges over 0..MaxElapsed units
MaxNotifications == 4     \* PropertiesChanged signals per run

Unit == 2                 \* a duration d stands for d/Unit seconds

(***************************************************************************)
(* Text.                                                                   *)
(***************************************************************************)
RECURSIVE join(_, _)
\* sep.join(parts)
join(sep, parts) ==
    IF parts = <<>> THEN ""
    ELSE IF Len(parts) = 1 THEN parts[1]
    ELSE parts[1] \o sep \o join(sep, Tail(parts))

\* math.floor and math.ceil of n/Unit
floor(n) == n \div Unit
ceil(n) == -((-n) \div Unit)

\* Faulty variant: the seconds segment depends on the minutes, not on the hours.
format_time_seconds_by_minutes(s) ==
    LET hours == s \div 3600
        minutes == (s % 3600) \div 60
        secs == s % 60
        p1 == IF hours > 0 THEN <<ToString(hours) \o "h">> ELSE <<>>
        p2 == IF minutes > 0 THEN Append(p1, ToString(minutes) \o "m") ELSE p1
        p3 == IF minutes = 0 THEN Append(p2, ToString(secs) \o "s") ELSE p2
    IN  join(" ", p3)

\* Faulty variant: a zero seconds segment is dropped.
format_time_drop_zero(s) ==
    LET hours == s \div 3600
        minutes == (s % 3600) \div 60
        secs == s % 60
        p1 == IF hours > 0 THEN <<ToString(hours) \o "h">> ELSE <<>>
        p2 == IF minutes > 0 THEN Append(p1, ToString(minutes) \o "m") ELSE p1
        p3 == IF hours = 0 /\ secs > 0 THEN Append(p2, ToString(secs) \o "s") ELSE p2
    IN  join(" ", p3)

\* format_time(seconds): the same function in both files.
format_time(s) ==
    LET hours == s \div 3600
        minutes == (s % 3600) \div 60
        secs == s % 60
        p1 == IF hours > 0 THEN <<ToString(hours) \o "h">> ELSE <<>>
        p2 == IF minutes > 0 THEN Append(p1, ToString(minutes) \o "m") ELSE p1
        p3 == IF hours = 0 THEN Append(p2, ToString(secs) \o "s") ELSE p2
    IN  join(" ", p3)

(***************************************************************************)
(* Timer snapshots: the mapping GetAll returns.  present is the set of     *)
(* keys the mapping holds; the value of an absent key is never read.       *)
(* State "" stands for a null (falsy) value.                               *)
(***************************************************************************)
Keys == {"State", "Elapsed", "StateDuration", "IsPaused"}
States == {"pomodoro", "short-break", "long-break", "null", "", "other"}
Durations == {0, 1, 3, 2 * Unit, 130 * Unit, 1500 * Unit, 3661 * Unit + 1}

Snapshots ==
    [present : SUBSET Keys, State : States, Elapsed : 0..MaxElapsed,
     StateDuration : Durations, IsPaused : BOOLEAN]

\* data.get(key, default)
get(d, key, default) == IF key \in d.present THEN d[key] ELSE default

\* Python's "x or y" for a number and for a string
or_number(x, y) == IF x = 0 THEN y ELSE x
or_string(x, y) == IF x = "" THEN y ELSE x

Printed(lines) == [out |-> lines, raised |-> "none"]
Raised(exc) == [out |-> <<>>, raised |-> exc]

\* The tail shared by both formatters: Break Over!, the remaining text, the match.
print_state(elapsed, remaining, is_paused, state) ==
    IF is_paused /\ elapsed = 0 /\ state = "pomodoro"
    THEN Printed(<<"Break Over!">>)
    ELSE LET remaining_string == IF is_paused THEN "Paused" ELSE format_time(remaining)
         IN  CASE state = "pomodoro" -> Printed(<<"Pomodoro " \o remaining_string>>)
               [] state = "short-break" -> Printed(<<"Break " \o remaining_string>>)
               [] state = "long-break" -> Printed(<<"Break " \o remaining_string>>)
               [] OTHER -> Printed(<<"Stopped">>)

\* async: print_state_from_data(data)
print_state_from_data(d) ==
    LET elapsed == floor(or_number(get(d, "Elapsed", 0), 0))
        state_duration == or_number(get(d, "StateDuration", 0), 0)
        remaining == ceil(state_duration - elapsed * Unit)
        is_paused == get(d, "IsPaused", FALSE)
        state == or_string(get(d, "State", ""), "null")
    IN  print_state(elapsed, remaining, is_paused, state)

\* sync: the formatting part of print_timer_state(); data[key] raises KeyError
print_timer_state(d) ==
    IF Keys \ d.present # {} THEN Raised("KeyError")
    ELSE LET elapsed == floor(d.Elapsed)
             remaining == ceil(d.StateDuration - elapsed * Unit)
         IN  print_state(elapsed, remaining, d.IsPaused, d.State)

(***************************************************************************)
(* The program's state before main() runs, and when only the pure          *)
(* functions are exercised.                                                *)
(***************************************************************************)
NoData ==
    [present |-> {}, State |-> "", Elapsed |-> 0, StateDuration |-> 0,
     IsPaused |-> FALSE]

ProgramAtStart ==
    /\ pc = "start" /\ conn = "none" /\ stdout = <<>> /\ stderr = <<>>
    /\ exitCode = <<>> /\ matchAdded = FALSE /\ handler = FALSE
    /\ update_event = FALSE /\ ready = <<>> /\ wpc = "none"
    /\ mustCancel = FALSE /\ queue = 0
    /\ replies = <<>> /\ fault = "none" /\ notifs = 0 /\ reads = 0
    /\ inflight = {} /\ printed = <<>> /\ failures = {} /\ dirty = FALSE
    /\ burst = 0 /\ afterBurst = 0 /\ interrupt = "none"

HarnessIdle ==
    /\ fpc = "input" /\ seconds = 0 /\ text = "" /\ data = NoData
    /\ result = Printed(<<>>)

(***************************************************************************)
(* SpecFormat: the pure functions applied to every input within the bounds *)
(***************************************************************************)
FormatInit ==
    /\ fpc = "input" /\ text = "" /\ result = Printed(<<>>)
    /\ \/ seconds \in 0..MaxSeconds /\ data = NoData
       \/ seconds = 0 /\ data \in Snapshots
    /\ impl = "async" /\ cmd = "status"
    /\ ProgramAtStart

CallFormatTime ==
    /\ fpc = "input"
    /\ text' = format_time(seconds)
    /\ fpc' = "format_time"
    /\ UNCHANGED <<seconds, data, result, pvars, evars>>

CallPrintStateFromData ==
    /\ fpc = "input"
    /\ result' = print_state_from_data(data)
    /\ fpc' = "print_state_from_data"
    /\ UNCHANGED <<seconds, text, data, pvars, evars>>

CallPrintTimerState ==
    /\ fpc = "input"
    /\ result' = print_timer_state(data)
    /\ fpc' = "print_timer_state"
    /\ UNCHANGED <<seconds, text, data, pvars, evars>>

FormatNext == CallFormatTime \/ CallPrintStateFromData \/ CallPrintTimerState

SpecFormat == FormatInit /\ [][FormatNext]_vars

(***************************************************************************)
(* Spec: one run of the command line, in either implementation.  The bus   *)
(* and the service are the environment: they make a connection, a call or  *)
(* a read succeed or fail, deliver PropertiesChanged signals (at most      *)
(* MaxNotifications of them) and, in watch mode, one SIGINT.               *)
(***************************************************************************)
Commands == {"start", "stop", "pause", "resume", "skip", "reset"}
Modes == Commands \cup {"status", "watch"}

\* Messages of the errors the bus or the service can answer with.
ErrorMessages == {"The name org.gnome.Pomodoro was not provided", "Unknown error"}

\* Snapshots the service answers GetAll with in a run: a running pomodoro
\* with every field, and an empty mapping.
SampleSnapshots ==
    { [present |-> Keys, State |-> "pomodoro", Elapsed |-> 1,
       StateDuration |-> 1500 * Unit, IsPaused |-> FALSE],
      NoData }

Traceback == "Traceback (most recent call last):"

iovars == <<stdout, stderr, exitCode>>
loopvars == <<matchAdded, handler, update_event, ready, wpc, mustCancel, queue, replies>>
readvars == <<reads, inflight, dirty, afterBurst>>
notifvars == <<notifs, burst>>

Init ==
    /\ HarnessIdle
    /\ impl \in {"async", "sync"}
    /\ cmd \in Modes
    /\ ProgramAtStart

alive == exitCode = <<>>

\* The reads whose result the program has not consumed yet.
OpenReads == inflight \cup {replies[i].id : i \in 1..Len(replies)}

\* An exception nothing catches: the interpreter prints the traceback and exits 1.
Uncaught ==
    /\ stderr' = Append(stderr, Traceback)
    /\ exitCode' = <<1>>
    /\ pc' = "done"
    /\ UNCHANGED stdout

\* A GetAll request goes out on the bus.
IssueRead ==
    /\ reads' = reads + 1
    /\ inflight' = inflight \cup {reads + 1}
    /\ dirty' = FALSE
    /\ afterBurst' = IF burst > 0 THEN afterBurst + 1 ELSE afterBurst

\* Faulty variant: the handler reports the error and the command still counts as done.
run_command_except_returns_true(e) == [ok |-> TRUE, err |-> <<"Error: " \o e>>]

\* The except clause of run_command_async / run_command: print to stderr, return False.
run_command_except(e) == [ok |-> FALSE, err |-> <<"Error: " \o e>>]

\* main() on the value r of run_command: print "OK: <command>", or sys.exit(1).
main_command(r) ==
    /\ stderr' = stderr \o r.err
    /\ stdout' = IF r.ok THEN Append(stdout, "OK: " \o cmd) ELSE stdout
    /\ exitCode' = IF r.ok THEN <<0>> ELSE <<1>>
    /\ pc' = "done"

---------------------------------------------------------------------------
\* async, a method command: MessageBus() and bus.connect(), then the call is sent.
run_command_async_connect ==
    /\ alive /\ impl = "async" /\ cmd \in Commands /\ pc = "start"
    /\ \/ /\ conn' = "open"
          /\ pc' = "calling"
          /\ UNCHANGED <<iovars, fault>>
       \/ \E e \in ErrorMessages :
             /\ fault' = "connect"
             /\ main_command(run_command_except(e))
             /\ UNCHANGED conn
    /\ UNCHANGED <<fvars, impl, cmd, loopvars, readvars, notifvars, printed, failures,
                   interrupt>>

\* async, a method command: the reply of call_pomodoro_method.
run_command_async_call ==
    /\ alive /\ impl = "async" /\ cmd \in Commands /\ pc = "calling"
    /\ \/ /\ conn' = "closed"
          /\ main_command([ok |-> TRUE, err |-> <<>>])
          /\ UNCHANGED fault
       \/ \E e \in ErrorMessages :
             /\ fault' = "call"
             /\ main_command(run_command_except(e))
             /\ UNCHANGED conn
    /\ UNCHANGED <<fvars, impl, cmd, loopvars, readvars, notifvars, printed, failures,
                   interrupt>>

\* async, status: bus.connect(), then get_properties sends GetAll.
status_async_connect ==
    /\ alive /\ impl = "async" /\ cmd = "status" /\ pc = "start"
    /\ \/ /\ conn' = "open"
          /\ pc' = "reading"
          /\ IssueRead
          /\ UNCHANGED <<iovars, fault>>
       \/ /\ fault' = "connect"
          /\ Uncaught
          /\ UNCHANGED <<conn, readvars>>
    /\ UNCHANGED <<fvars, impl, cmd, loopvars, notifvars, printed, failures, interrupt>>

\* async, status: the reply of GetAll, print_state_from_data, finally bus.disconnect().
status_async_read ==
    /\ alive /\ impl = "async" /\ cmd = "status" /\ pc = "reading"
    /\ conn' = "closed"
    /\ inflight' = {}
    /\ \/ \E d \in SampleSnapshots :
             /\ stdout' = stdout \o print_state_from_data(d).out
             /\ printed' = Append(printed, reads)
             /\ exitCode' = <<0>>
             /\ pc' = "done"
             /\ UNCHANGED <<stderr, fault>>
       \/ /\ fault' = "read"
          /\ Uncaught
          /\ UNCHANGED printed
    /\ UNCHANGED <<fvars, impl, cmd, loopvars, reads, dirty, afterBurst, notifvars,
                   failures, interrupt>>

---------------------------------------------------------------------------
\* sync, a method command: get_pomodoro_interface(); the connection is never closed.
run_command_connect ==
    /\ alive /\ impl = "sync" /\ cmd \in Commands /\ pc = "start"
    /\ \/ /\ conn' = "open"
          /\ pc' = "calling"
          /\ UNCHANGED <<iovars, fault>>
       \/ \E e \in ErrorMessages :
             /\ fault' = "connect"
             /\ main_command(run_command_except(e))
             /\ UNCHANGED conn
    /\ UNCHANGED <<fvars, impl, cmd, loopvars, readvars, notifvars, printed, failures,
                   interrupt>>

\* sync, a method command: iface.Start() ... iface.Reset() returns or raises.
run_command_call ==
    /\ alive /\ impl = "sync" /\ cmd \in Commands /\ pc = "calling"
    /\ \/ /\ main_command([ok |-> TRUE, err |-> <<>>])
          /\ UNCHANGED fault
       \/ \E e \in ErrorMessages :
             /\ fault' = "call"
             /\ main_command(run_command_except(e))
    /\ UNCHANGED <<fvars, impl, cmd, conn, loopvars, readvars, notifvars, printed,
                   failures, interrupt>>

\* sync, status: SessionBus(), the proxy, then print_timer_state() sends GetAll.
main_status_connect ==
    /\ alive /\ impl = "sync" /\ cmd = "status" /\ pc = "start"
    /\ \/ /\ conn' = "open"
          /\ pc' = "reading"
          /\ IssueRead
          /\ UNCHANGED <<iovars, fault>>
       \/ /\ fault' = "connect"
          /\ Uncaught
          /\ UNCHANGED <<conn, readvars>>
    /\ UNCHANGED <<fvars, impl, cmd, loopvars, notifvars, printed, failures, interrupt>>

\* sync, status: GetAll returns or raises; the formatter prints or raises KeyError.
main_status_read ==
    /\ alive /\ impl = "sync" /\ cmd = "status" /\ pc = "reading"
    /\ inflight' = {}
    /\ \/ \E d \in SampleSnapshots :
             LET r == print_timer_state(d)
             IN  IF r.raised = "none"
                 THEN /\ stdout' = stdout \o r.out
                      /\ printed' = Append(printed, reads)
                      /\ exitCode' = <<0>>
                      /\ pc' = "done"
                      /\ UNCHANGED <<stderr, fault>>
                 ELSE /\ fault' = "format"
                      /\ Uncaught
                      /\ UNCHANGED printed
       \/ /\ fault' = "read"
          /\ Uncaught
          /\ UNCHANGED printed
    /\ UNCHANGED <<fvars, impl, cmd, conn, loopvars, reads, dirty, afterBurst, notifvars,
                   failures, interrupt>>

---------------------------------------------------------------------------
(***************************************************************************)
(* Watch mode, async.  The event loop runs the callbacks of ready in FIFO  *)
(* order: "set" is update_event.set scheduled by message_handler, "main"   *)
(* and "watch" resume the coroutine of watch_async and of watch_loop.      *)
(* asyncio.run (Python 3.11 on) turns SIGINT into a cancellation of the    *)
(* main task; a KeyboardInterrupt it raises is swallowed by main().        *)
(***************************************************************************)
Reply(id, ok, d, e) == [id |-> id, ok |-> ok, data |-> d, err |-> e]
Outcomes(id) ==
    {Reply(id, TRUE, d, "") : d \in SampleSnapshots}
        \cup {Reply(id, FALSE, NoData, e) : e \in ErrorMessages}

\* A PropertiesChanged signal reaches the client.
SignalDelivered ==
    /\ notifs' = notifs + 1
    /\ dirty' = TRUE
    /\ burst' = IF inflight = {} THEN 0 ELSE IF afterBurst > 0 THEN 1 ELSE burst + 1
    /\ afterBurst' = 0
    /\ UNCHANGED <<reads, inflight>>

\* Faulty variant: the loop does not wait for the read it started.
watch_loop_forgets_read == "waiting"

\* watch_loop: "data = await get_properties(bus)" suspends the task until the reply.
watch_loop_awaits_read == "reading"

\* Faulty variant: the loop has no except clause.
watch_loop_reraises(e) == "raise"

\* watch_loop: "except Exception: pass".
watch_loop_except(e) == "pass"

\* bus.connect(), then the AddMatch call is sent.
watch_async_connect ==
    /\ alive /\ impl = "async" /\ cmd = "watch" /\ pc = "start"
    /\ \/ /\ conn' = "open"
          /\ pc' = "addmatch"
          /\ UNCHANGED <<iovars, fault>>
       \/ /\ fault' = "connect"
          /\ Uncaught
          /\ UNCHANGED conn
    /\ UNCHANGED <<fvars, impl, cmd, loopvars, readvars, notifvars, printed, failures,
                   interrupt>>

\* "await bus.call(add_match_msg)" returns (the reply is not inspected) or raises;
\* then get_properties sends the initial GetAll.
watch_async_add_match ==
    /\ alive /\ impl = "async" /\ cmd = "watch" /\ pc = "addmatch"
    /\ \/ /\ matchAdded' \in BOOLEAN
          /\ IssueRead
          /\ pc' = "initial"
          /\ UNCHANGED <<iovars, fault>>
       \/ /\ fault' = "subscribe"
          /\ Uncaught
          /\ UNCHANGED <<matchAdded, readvars>>
    /\ UNCHANGED <<fvars, impl, cmd, conn, handler, update_event, ready, wpc, mustCancel,
                   queue, replies, notifvars, printed, failures, interrupt>>

\* The reply of a GetAll arrives: the future of bus.call is resolved and the
\* task awaiting it is scheduled.  A cancelled future ignores its reply.
reply_arrives ==
    /\ alive /\ impl = "async" /\ cmd = "watch"
    /\ IF pc = "initial" THEN interrupt = "none" ELSE ~mustCancel
    /\ \E id \in inflight : \E r \in Outcomes(id) :
          /\ inflight' = inflight \ {id}
          /\ replies' = Append(replies, r)
    /\ ready' = Append(ready, IF pc = "initial" THEN "main" ELSE "watch")
    /\ wpc' = IF pc = "initial" THEN wpc ELSE "read_done"
    /\ UNCHANGED <<fvars, impl, cmd, pc, conn, iovars, matchAdded, handler, update_event,
                   mustCancel, queue, fault, notifvars, reads, dirty, afterBurst, printed,
                   failures, interrupt>>

\* message_handler: a PropertiesChanged signal schedules update_event.set.
\* Before add_message_handler the client has no handler and drops the signal.
message_handler ==
    /\ alive /\ impl = "async" /\ cmd = "watch"
    /\ matchAdded /\ conn = "open" /\ notifs < MaxNotifications
    /\ SignalDelivered
    /\ ready' = IF handler THEN Append(ready, "set") ELSE ready
    /\ UNCHANGED <<fvars, impl, cmd, pc, conn, iovars, matchAdded, handler, update_event,
                   wpc, mustCancel, queue, replies, fault, printed, failures, interrupt>>

\* The event loop runs update_event.set(): a waiter is woken the first time.
update_event_set ==
    /\ alive /\ impl = "async" /\ ready # <<>> /\ Head(ready) = "set"
    /\ update_event' = TRUE
    /\ IF ~update_event /\ wpc = "waiting" /\ ~mustCancel
       THEN wpc' = "wait_done" /\ ready' = Append(Tail(ready), "watch")
       ELSE wpc' = wpc /\ ready' = Tail(ready)
    /\ UNCHANGED <<fvars, impl, cmd, pc, conn, iovars, matchAdded, handler, mustCancel,
                   queue, replies, fault, notifvars, readvars, printed, failures,
                   interrupt>>

\* watch_loop at "await update_event.wait()": a set event is cleared and the read
\* is sent without suspending; otherwise the task waits.
watch_loop_top ==
    IF update_event
    THEN /\ update_event' = FALSE
         /\ IssueRead
         /\ wpc' = watch_loop_awaits_read
    ELSE /\ wpc' = "waiting"
         /\ UNCHANGED <<update_event, readvars>>

\* The event loop resumes the watch_loop task.
watch_loop ==
    /\ alive /\ impl = "async" /\ ready # <<>> /\ Head(ready) = "watch"
    /\ IF mustCancel
       THEN \* CancelledError is thrown into the task; the task awaiting it is woken
            /\ wpc' = "cancelled"
            /\ ready' = Append(Tail(ready), "main")
            /\ UNCHANGED <<update_event, readvars, replies, stdout, printed, failures>>
       ELSE /\ ready' = Tail(ready)
            /\ CASE wpc = "wait_done" ->
                      /\ update_event' = FALSE
                      /\ IssueRead
                      /\ wpc' = watch_loop_awaits_read
                      /\ UNCHANGED <<replies, stdout, printed, failures>>
                 [] wpc = "read_done" ->
                      LET r == Head(replies)
                      IN  /\ replies' = Tail(replies)
                          /\ IF r.ok
                             THEN /\ stdout' = stdout \o print_state_from_data(r.data).out
                                  /\ printed' = Append(printed, r.id)
                                  /\ UNCHANGED failures
                                  /\ watch_loop_top
                             ELSE /\ failures' = failures \cup {r.id}
                                  /\ UNCHANGED <<stdout, printed>>
                                  /\ IF watch_loop_except(r.err) = "pass"
                                     THEN watch_loop_top
                                     ELSE /\ wpc' = "failed"
                                          /\ UNCHANGED <<update_event, readvars>>
                 [] OTHER ->
                      /\ watch_loop_top
                      /\ UNCHANGED <<replies, stdout, printed, failures>>
    /\ UNCHANGED <<fvars, impl, cmd, pc, conn, stderr, exitCode, matchAdded, handler,
                   mustCancel, queue, fault, notifvars, interrupt>>

\* The event loop resumes watch_async: after the initial read, on cancellation
\* at "await asyncio.Future()", and when the cancelled watch_task is done.
watch_async ==
    /\ alive /\ impl = "async" /\ ready # <<>> /\ Head(ready) = "main"
    /\ CASE pc = "initial" /\ interrupt # "none" ->
              \* CancelledError leaves watch_async before the try: no disconnect
              /\ exitCode' = <<0>>
              /\ pc' = "done"
              /\ ready' = Tail(ready)
              /\ UNCHANGED <<conn, stdout, stderr, handler, wpc, mustCancel, replies,
                             fault, printed>>
         [] pc = "initial" /\ interrupt = "none" ->
              LET r == Head(replies)
              IN  /\ replies' = Tail(replies)
                  /\ IF r.ok
                     THEN /\ stdout' = stdout \o print_state_from_data(r.data).out
                          /\ printed' = Append(printed, r.id)
                          /\ handler' = TRUE
                          /\ wpc' = "created"
                          /\ ready' = Append(Tail(ready), "watch")
                          /\ pc' = "forever"
                          /\ UNCHANGED <<stderr, exitCode, fault>>
                     ELSE /\ fault' = "initial-read"
                          /\ Uncaught
                          /\ ready' = Tail(ready)
                          /\ UNCHANGED <<handler, wpc, printed>>
                  /\ UNCHANGED <<conn, mustCancel>>
         [] pc = "forever" ->
              \* except CancelledError: pass; finally: watch_task.cancel(); await watch_task
              /\ mustCancel' = TRUE
              /\ ready' = IF wpc \in {"waiting", "reading"}
                          THEN Append(Tail(ready), "watch") ELSE Tail(ready)
              /\ pc' = "joining"
              /\ UNCHANGED <<conn, iovars, handler, wpc, replies, fault, printed>>
         [] OTHER ->
              \* pc = "joining": the CancelledError of watch_task is caught; bus.disconnect()
              /\ conn' = "closed"
              /\ exitCode' = <<0>>
              /\ pc' = "done"
              /\ ready' = Tail(ready)
              /\ UNCHANGED <<stdout, stderr, handler, wpc, mustCancel, replies, fault,
                             printed>>
    /\ UNCHANGED <<fvars, impl, cmd, matchAdded, update_event, queue, notifvars, readvars,
                   failures, interrupt>>

\* SIGINT in watch mode.  Where the model makes an await one step ("start",
\* "addmatch") the cancellation is delivered at once.
main_keyboard_interrupt ==
    /\ alive /\ impl = "async" /\ cmd = "watch" /\ interrupt = "none"
    /\ pc \in {"start", "addmatch", "initial", "forever"}
    /\ interrupt' = IF pc \in {"start", "addmatch"} THEN "setup"
                    ELSE IF OpenReads # {} THEN "reading" ELSE "waiting"
    /\ IF pc \in {"start", "addmatch"}
       THEN /\ exitCode' = <<0>>
            /\ pc' = "done"
            /\ UNCHANGED ready
       ELSE /\ ready' = IF \E i \in 1..Len(ready) : ready[i] = "main"
                        THEN ready ELSE Append(ready, "main")
            /\ UNCHANGED <<exitCode, pc>>
    /\ UNCHANGED <<fvars, impl, cmd, conn, stdout, stderr, matchAdded, handler,
                   update_event, wpc, mustCancel, queue, replies, fault, notifvars,
                   readvars, printed, failures>>

---------------------------------------------------------------------------
(***************************************************************************)
(* Watch mode, sync.  GetAll is a blocking call: signals that arrive       *)
(* during it wait in the connection's queue and the GLib main loop         *)
(* dispatches them one by one.  dbus-python logs an exception raised by a  *)
(* signal callback and goes on.  Nothing catches KeyboardInterrupt.        *)
(***************************************************************************)
SignalHandlerLog == "ERROR:dbus.connection:Exception in handler for D-Bus signal:"

\* SessionBus(), connect_to_signal, then print_timer_state() sends the initial GetAll.
main_watch_connect ==
    /\ alive /\ impl = "sync" /\ cmd = "watch" /\ pc = "start"
    /\ \/ /\ conn' = "open"
          /\ matchAdded' = TRUE
          /\ handler' = TRUE
          /\ IssueRead
          /\ pc' = "initial"
          /\ UNCHANGED <<iovars, fault>>
       \/ /\ fault' = "connect"
          /\ Uncaught
          /\ UNCHANGED <<conn, matchAdded, handler, readvars>>
    /\ UNCHANGED <<fvars, impl, cmd, update_event, ready, wpc, mustCancel, queue, replies,
                   notifvars, printed, failures, interrupt>>

\* The initial print_timer_state() returns or raises.
main_watch_initial_read ==
    /\ alive /\ impl = "sync" /\ cmd = "watch" /\ pc = "initial"
    /\ inflight' = {}
    /\ \/ \E d \in SampleSnapshots :
             LET r == print_timer_state(d)
             IN  IF r.raised = "none"
                 THEN /\ stdout' = stdout \o r.out
                      /\ printed' = Append(printed, reads)
                      /\ pc' = "loop"
                      /\ UNCHANGED <<stderr, exitCode, fault>>
                 ELSE /\ fault' = "format"
                      /\ Uncaught
                      /\ UNCHANGED printed
       \/ /\ fault' = "initial-read"
          /\ Uncaught
          /\ UNCHANGED printed
    /\ UNCHANGED <<fvars, impl, cmd, conn, loopvars, reads, dirty, afterBurst, notifvars,
                   failures, interrupt>>

\* A PropertiesChanged signal reaches the connection and is queued.
signal_received ==
    /\ alive /\ impl = "sync" /\ cmd = "watch"
    /\ matchAdded /\ notifs < MaxNotifications
    /\ SignalDelivered
    /\ queue' = queue + 1
    /\ UNCHANGED <<fvars, impl, cmd, pc, conn, iovars, matchAdded, handler, update_event,
                   ready, wpc, mustCancel, replies, fault, printed, failures, interrupt>>

\* loop.run() dispatches one queued signal: on_properties_changed calls
\* print_timer_state(), which sends GetAll.
on_properties_changed ==
    /\ alive /\ impl = "sync" /\ cmd = "watch" /\ pc = "loop" /\ queue > 0
    /\ queue' = queue - 1
    /\ IssueRead
    /\ pc' = "loop_reading"
    /\ UNCHANGED <<fvars, impl, cmd, conn, iovars, matchAdded, handler, update_event,
                   ready, wpc, mustCancel, replies, fault, notifvars, printed, failures,
                   interrupt>>

\* print_timer_state() inside the callback returns, or raises into dbus-python.
on_properties_changed_read ==
    /\ alive /\ impl = "sync" /\ cmd = "watch" /\ pc = "loop_reading"
    /\ inflight' = {}
    /\ pc' = "loop"
    /\ \/ \E d \in SampleSnapshots :
             LET r == print_timer_state(d)
             IN  IF r.raised = "none"
                 THEN /\ stdout' = stdout \o r.out
                      /\ printed' = Append(printed, reads)
                      /\ UNCHANGED <<stderr, failures>>
                 ELSE /\ stderr' = Append(stderr, SignalHandlerLog)
                      /\ failures' = failures \cup {reads}
                      /\ UNCHANGED <<stdout, printed>>
       \/ /\ stderr' = Append(stderr, SignalHandlerLog)
          /\ failures' = failures \cup {reads}
          /\ UNCHANGED <<stdout, printed>>
    /\ UNCHANGED <<fvars, impl, cmd, conn, exitCode, loopvars, fault, reads, dirty,
                   afterBurst, notifvars, interrupt>>

\* SIGINT in watch mode: KeyboardInterrupt leaves main() uncaught.  The exit
\* status is 1, or 130 where the interpreter re-raises the signal.
keyboard_interrupt ==
    /\ alive /\ impl = "sync" /\ cmd = "watch" /\ interrupt = "none"
    /\ interrupt' = IF pc = "start" THEN "setup"
                    ELSE IF OpenReads # {} THEN "reading" ELSE "waiting"
    /\ stderr' = Append(stderr, Traceback)
    /\ exitCode' \in {<<1>>, <<130>>}
    /\ pc' = "done"
    /\ UNCHANGED <<fvars, impl, cmd, conn, stdout, loopvars, fault, notifvars, readvars,
                   printed, failures>>

Next ==
    \/ run_command_async_connect
    \/ run_command_async_call
    \/ status_async_connect
    \/ status_async_read
    \/ watch_async_connect
    \/ watch_async_add_match
    \/ reply_arrives
    \/ message_handler
    \/ update_event_set
    \/ watch_loop
    \/ watch_async
    \/ main_keyboard_interrupt
    \/ run_command_connect
    \/ run_command_call
    \/ main_status_connect
    \/ main_status_read
    \/ main_watch_connect
    \/ main_watch_initial_read
    \/ signal_received
    \/ on_properties_changed
    \/ on_properties_changed_read
    \/ keyboard_interrupt

Spec == Init /\ [][Next]_vars

\* The event loop (asyncio, GLib) runs what is scheduled or queued, a blocking
\* call returns, and the bus answers a request.  Signals and the interrupt
\* may or may not come.
ProgramStep ==
    \/ update_event_set \/ watch_loop \/ watch_async
    \/ main_watch_initial_read \/ on_properties_changed \/ on_properties_changed_read

FairSpec == Spec /\ WF_vars(ProgramStep) /\ WF_vars(reply_arrives)

(***************************************************************************)
(* Properties of the pure functions, under SpecFormat.                     *)
(***************************************************************************)
\* The segments of C6, in order, each with the condition under which it is shown.
ClaimedSegments(s) ==
    LET candidates ==
            << [show |-> s \div 3600 > 0, seg |-> ToString(s \div 3600) \o "h"],
               [show |-> (s % 3600) \div 60 > 0,
                seg |-> ToString((s % 3600) \div 60) \o "m"],
               [show |-> s \div 3600 = 0, seg |-> ToString(s % 60) \o "s"] >>
    IN  SelectSeq(candidates, LAMBDA c : c.show)

ClaimedText(s) ==
    LET segs == ClaimedSegments(s)
    IN  CASE Len(segs) = 0 -> ""
          [] Len(segs) = 1 -> segs[1].seg
          [] Len(segs) = 2 -> segs[1].seg \o " " \o segs[2].seg
          [] OTHER -> segs[1].seg \o " " \o segs[2].seg \o " " \o segs[3].seg

\* C6: for every s in 0..MaxSeconds, format_time(s) is the space-joined list of
\* "<s div 3600>h" if s div 3600 > 0, "<(s mod 3600) div 60>m" if that is > 0 and
\* "<s mod 60>s" if s div 3600 = 0; so format_time(3600) = "1h",
\* format_time(3661) = "1h 1m" and format_time(65) = "1m 5s".
C6_FormatTimeSegments ==
    fpc = "format_time" =>
        /\ text = ClaimedText(seconds)
        /\ seconds = 3600 => text = "1h"
        /\ seconds = 3661 => text = "1h 1m"
        /\ seconds = 65 => text = "1m 5s"
        /\ seconds = 5 => text = "5s"

C6_Witness == fpc = "format_time" /\ seconds = 3661 /\ text = "1h 1m"

\* C7 as stated: format_time(0) returns the empty string.
C7_ZeroIsEmpty == (fpc = "format_time" /\ seconds = 0) => text = ""

\* C7 as amended: format_time(0) returns "0s": with hours = 0 the seconds
\* segment is always shown, so no input yields the empty string.
C7_ZeroIsZeroSeconds ==
    fpc = "format_time" => /\ seconds = 0 => text = "0s"
                           /\ text # ""

C7_Witness == fpc = "format_time" /\ seconds = 0 /\ text = "0s"

\* The one line C8 says the formatter prints for snapshot d.  A missing numeric
\* field counts as 0 and a missing IsPaused as false.
ClaimedLine(d) ==
    LET paused == "IsPaused" \in d.present /\ d.IsPaused
        elapsed == IF "Elapsed" \in d.present THEN floor(d.Elapsed) ELSE 0
        duration == IF "StateDuration" \in d.present THEN d.StateDuration ELSE 0
        known == /\ "State" \in d.present
                 /\ d.State \in {"pomodoro", "short-break", "long-break"}
        r == IF paused THEN "Paused" ELSE format_time(ceil(duration - elapsed * Unit))
    IN  IF paused /\ elapsed = 0 /\ "State" \in d.present /\ d.State = "pomodoro"
        THEN "Break Over!"
        ELSE IF ~known THEN "Stopped"
        ELSE IF d.State = "pomodoro" THEN "Pomodoro " \o r
        ELSE "Break " \o r

\* C8: for every timer snapshot the formatter prints exactly one line, the one
\* ClaimedLine gives, whatever fields are missing.
C8_FormatterPrintsClaimedLine ==
    fpc \in {"print_state_from_data", "print_timer_state"} =>
        result = Printed(<<ClaimedLine(data)>>)

\* C8 restricted to the asynchronous implementation's formatter.
C8_AsyncFormatterPrintsClaimedLine ==
    fpc = "print_state_from_data" => result = Printed(<<ClaimedLine(data)>>)

\* C8 for the synchronous formatter on snapshots that hold every field.
C8_SyncFormatterOnCompleteSnapshots ==
    (fpc = "print_timer_state" /\ data.present = Keys) =>
        result = Printed(<<ClaimedLine(data)>>)

(***************************************************************************)
(* Properties of a run, under Spec.                                        *)
(***************************************************************************)
\* Something the program holds will make it issue a read.
TriggerPending ==
    IF impl = "async"
    THEN update_event \/ \E i \in 1..Len(ready) : ready[i] = "set"
    ELSE queue > 0

\* The watcher is in its wait loop.
LoopRunning ==
    IF impl = "async"
    THEN pc = "forever" /\ wpc \in {"waiting", "wait_done", "reading", "read_done"}
    ELSE pc \in {"loop", "loop_reading"}

\* C1: when a burst of notifications arrives while a GetAll is in flight, at most
\* one read is issued after that read, however many notifications the burst held.
C1_BurstCoalesced == cmd = "watch" => afterBurst <= 1

\* C1 restricted to the asynchronous implementation.
C1_AsyncBurstCoalesced == (cmd = "watch" /\ impl = "async") => afterBurst <= 1

\* C2: a method command that met a failure (connection or call) ends with exit
\* status 1, one "Error: ..." line on stderr and nothing on stdout; one that met
\* none ends with exactly "OK: <command>" on stdout and exit status 0.
C2_CommandOutcome ==
    cmd \in Commands =>
        /\ alive => stdout = <<>>
        /\ ~alive =>
              IF fault = "none"
              THEN stdout = <<"OK: " \o cmd>> /\ exitCode = <<0>> /\ stderr = <<>>
              ELSE /\ exitCode = <<1>>
                   /\ stdout = <<>>
                   /\ Len(stderr) = 1
                   /\ stderr[1] \in {"Error: " \o e : e \in ErrorMessages}

C2_Witness ==
    /\ cmd = "skip" /\ impl = "async" /\ ~alive /\ fault = "call"
    /\ exitCode = <<1>> /\ stdout = <<>>

\* C3, safety: a failed notification-triggered read never ends the watcher: as long as
\* no interrupt came, the process lives, the loop runs and a delivered
\* notification still has its read pending; without an interrupt the watcher
\* ends only before the loop, when the set-up or the initial read fails.
C3_LoopReadFailureNotFatal ==
    (cmd = "watch" /\ interrupt = "none") =>
        /\ failures # {} => alive /\ LoopRunning /\ (dirty => TriggerPending)
        /\ ~alive => failures = {} /\ printed = <<>> /\ fault # "none" /\ exitCode = <<1>>

\* A read failed in the loop and a later read was printed.
C3_Witness ==
    /\ cmd = "watch" /\ impl = "async" /\ interrupt = "none" /\ alive
    /\ \E f \in failures : \E i \in 1..Len(printed) : printed[i] > f

\* C4: in every terminal state a connection that was opened is disconnected.
C4_ConnectionReleasedOnExit == (~alive /\ conn # "none") => conn = "closed"

\* C5: watch mode ends only by the interrupt, and an interrupt that arrives while
\* the program waits for a notification or has a read in flight ends it with
\* the bus disconnected and exit status 0.
C5_InterruptIsClean ==
    (cmd = "watch" /\ interrupt \in {"waiting", "reading"} /\ ~alive) =>
        exitCode = <<0>> /\ conn = "closed"

\* C5 for the asynchronous implementation once watch_loop is running.
C5_AsyncLoopInterruptIsClean ==
    (cmd = "watch" /\ impl = "async" /\ interrupt # "none" /\ ~alive /\ wpc # "none") =>
        exitCode = <<0>> /\ conn = "closed" /\ wpc = "cancelled"

\* C9: reads never overlap: the only read whose result the program has not yet
\* consumed is the latest one, and lines are printed in the order of their reads.
C9_ReadsNeverOverlap ==
    cmd = "watch" =>
        /\ OpenReads \subseteq {reads}
        /\ Cardinality(inflight) <= 1
        /\ \A i \in 1..Len(printed) : printed[i] \in 1..reads
        /\ \A i, j \in 1..Len(printed) : i < j => printed[i] < printed[j]

\* The second notification-triggered read is in flight; the earlier reads are printed.
C9_Witness ==
    /\ cmd = "watch" /\ impl = "async" /\ reads = 3 /\ inflight = {3}
    /\ printed = <<1, 2>> /\ notifs >= 2

\* C10: no notification is lost: while the watcher runs uninterrupted, a
\* notification delivered since the last read was issued has a read pending.
C10_NoNotificationLost ==
    (cmd = "watch" /\ alive /\ interrupt = "none" /\ dirty) => TriggerPending

\* C10 once add_message_handler has run: a delivered signal leaves a read pending.
C10_HandledSignalLeavesTrigger ==
    [][(notifs' = notifs + 1 /\ handler) => TriggerPending']_vars

(***************************************************************************)
(* Progress, under FairSpec.                                               *)
(***************************************************************************)
\* C3, progress: after a failed read in the loop, a delivered notification is
\* followed by a read unless the interrupt comes first.
C3_FailedReadThenServed ==
    (cmd = "watch" /\ failures # {} /\ dirty) ~> (~dirty \/ interrupt # "none")

\* C3: a failed notification-triggered read never ends the watcher, which goes
\* on serving later notifications; only a failure before the loop is fatal.
C3_WatcherSurvivesReadFailure ==
    []C3_LoopReadFailureNotFatal /\ C3_FailedReadThenServed

\* C5, progress, asynchronous implementation: an interrupted watcher ends.
C5_AsyncInterruptEndsRun ==
    (cmd = "watch" /\ impl = "async" /\ interrupt # "none") ~> ~alive

\* C10, progress: a delivered notification is followed by a read, unless the
\* interrupt or a fatal failure comes first.
C10_NotificationServed ==
    (cmd = "watch" /\ dirty) ~> (~dirty \/ interrupt # "none" \/ ~alive)

\* C10, progress, synchronous implementation.
C10_SyncNotificationServed ==
    (cmd = "watch" /\ impl = "sync" /\ dirty) ~> (~dirty \/ interrupt # "none" \/ ~alive)

====
